---- MODULE Spec2Model ----
(***************************************************************************)
(* Model of speech_bubblifier.py: the row scanner, the block rows, the     *)
(* odd and even families of block rows, and the packing of word layers.    *)
(* Horizontal positions of word layers are kept doubled (field x_min2),    *)
(* because _place_words computes them in half pixels (0.5 * int).          *)
(***************************************************************************)
EXTENDS Integers, Sequences, FiniteSets, TLC

\* Bounds of the inputs: the right edge of the selection, the number of words
\* and the space between them, the height of a block row, the two offsets.
MaxX == 6
MaxWords == 3
MaxSpace == 2
MaxRowHeight == 3
MaxOffset == 1

\* The height of the tall selections of SpecTall.
MaxTallY == 6

\* The other inputs of the layout are drawn from these sets.
SelectionLefts == 0 .. 1
SelectionHeights == 1 .. 3
WordWidths == 1 .. 2

VARIABLES pc, err, selection, x_min, y_min, x_max, y_max, height, row_height,
          space_width, horizontal_offset, pixel_row_bounds, odd_block_rows,
          even_block_rows, max_num_rows, word_layers, min_num_rows, num_rows,
          word_layers_by_row, block_rows_yielded

vars == <<pc, err, selection, x_min, y_min, x_max, y_max, height, row_height,
          space_width, horizontal_offset, pixel_row_bounds, odd_block_rows,
          even_block_rows, max_num_rows, word_layers, min_num_rows, num_rows,
          word_layers_by_row, block_rows_yielded>>

\* ------------------------------------------------------------ Python values

\* Python's None, and an int that is not None.
None == [none |-> TRUE, v |-> 0]
Some(x) == [none |-> FALSE, v |-> x]

\* Python's truth value of an int-or-None: None and 0 are both false.
Truthy(o) == ~o.none /\ o.v # 0

\* The entry of a pixel row that is all unselected (None in _pixel_row_bounds).
NoBounds == [none |-> TRUE, lo |-> 0, hi |-> None]

Max2(a, b) == IF a >= b THEN a ELSE b

RECURSIVE SumWidths(_)
SumWidths(ws) == IF ws = <<>> THEN 0 ELSE Head(ws).width + SumWidths(Tail(ws))

\* ------------------------------------------------------------ row scanner

\* selection.get_pixel(x, y)[0]: the selection holds, per row, its on columns.
get_pixel(sel, x, y) == y \in DOMAIN sel /\ x \in sel[y]

\* for x in range(x_min, x_max): the first on pixel, or None (the for's else).
RECURSIVE ForwardScan(_, _, _, _)
ForwardScan(sel, y, x, xmax) ==
    IF x >= xmax THEN None
    ELSE IF get_pixel(sel, x, y) THEN Some(x)
    ELSE ForwardScan(sel, y, x + 1, xmax)

\* for x in range(x_max, x_min, -1): the first on pixel, or bound_max stays None.
RECURSIVE BackwardScan(_, _, _, _)
BackwardScan(sel, y, x, xmin) ==
    IF x <= xmin THEN None
    ELSE IF get_pixel(sel, x, y) THEN Some(x)
    ELSE BackwardScan(sel, y, x - 1, xmin)

\* One iteration of the loop over y.
PixelRow(sel, y, xmin, xmax) ==
    LET bound_min == ForwardScan(sel, y, xmin, xmax)
    IN  IF bound_min.none THEN NoBounds
        ELSE [none |-> FALSE, lo |-> bound_min.v,
              hi |-> BackwardScan(sel, y, xmax, xmin)]

\* The columns at which the scan of row y calls get_pixel.
QueriedColumns(sel, y, xmin, xmax) ==
    LET bound_min == ForwardScan(sel, y, xmin, xmax)
        bound_max == BackwardScan(sel, y, xmax, xmin)
    IN  IF bound_min.none THEN xmin .. (xmax - 1)
        ELSE (xmin .. bound_min.v) \cup
             ((IF bound_max.none THEN xmin + 1 ELSE bound_max.v) .. xmax)

compute_pixel_row_bounds(sel, xmin, ymin, xmax, ymax) ==
    [i \in 1 .. Max2(0, ymax - ymin) |-> PixelRow(sel, ymin + i - 1, xmin, xmax)]

\* self._pixel_row_bounds[pixel_row - self.y_min], with Python's list indexing:
\* a negative index counts from the end, anything else out of range raises.
get_pixel_row_bounds(prb, ymin, pixel_row) ==
    LET idx == pixel_row - ymin
        n == Len(prb)
    IN  IF idx >= 0 /\ idx < n THEN [exc |-> "", val |-> prb[idx + 1]]
        ELSE IF idx < 0 /\ idx >= -n THEN [exc |-> "", val |-> prb[n + idx + 1]]
        ELSE [exc |-> "InvalidRowError", val |-> NoBounds]

\* ------------------------------------------------------------ BlockRow

\* The loop of BlockRow._compute_horizontal_bounds from scan line y on.
\* acc = [left, right, returned, exc]; m is speech_bubble.horizontal_offset.
RECURSIVE HorizontalBoundsLoop(_, _, _, _, _, _)
HorizontalBoundsLoop(prb, ymin, m, y, bottom, acc) ==
    IF y >= bottom THEN acc
    ELSE
      LET r == get_pixel_row_bounds(prb, ymin, y)
      IN  IF r.exc # "" THEN [acc EXCEPT !.exc = r.exc]
          ELSE IF r.val.none THEN [acc EXCEPT !.returned = TRUE]
          ELSE
            LET left1 == IF ~Truthy(acc.left) \/ r.val.lo > acc.left.v
                         THEN Some(r.val.lo + m) ELSE acc.left
                \* a bound_max of None compares below every int, and then
                \* None - horizontal_offset raises TypeError
                takeRight == ~Truthy(acc.right) \/ r.val.hi.none
                                \/ r.val.hi.v < acc.right.v
            IN  IF takeRight /\ r.val.hi.none
                THEN [acc EXCEPT !.left = left1, !.exc = "TypeError"]
                ELSE HorizontalBoundsLoop(prb, ymin, m, y + 1, bottom,
                        [acc EXCEPT !.left = left1,
                                    !.right = IF takeRight
                                              THEN Some(r.val.hi.v - m)
                                              ELSE acc.right])

\* The end of _compute_horizontal_bounds: width stays 0 after the early return
\* and unless left and right are both true and right > left.
HorizontalBounds(acc) ==
    [left |-> acc.left, right |-> acc.right, exc |-> acc.exc,
     width |-> IF ~acc.returned /\ acc.exc = "" /\ Truthy(acc.left)
                  /\ Truthy(acc.right) /\ acc.right.v > acc.left.v
               THEN acc.right.v - acc.left.v ELSE 0]

compute_horizontal_bounds(prb, ymin, m, top, bottom) ==
    HorizontalBounds(HorizontalBoundsLoop(prb, ymin, m, top, bottom,
        [left |-> None, right |-> None, returned |-> FALSE, exc |-> ""]))

\* BlockRow.__init__ once the horizontal bounds b are computed.
BlockRowOf(top, h, b) ==
    [top |-> top, bottom |-> top + h, left |-> b.left, right |-> b.right,
     width |-> b.width, exc |-> b.exc]

\* BlockRow(speech_bubble, top)
BlockRow(prb, ymin, h, m, top) ==
    BlockRowOf(top, h, compute_horizontal_bounds(prb, ymin, m, top, top + h))

\* ------------------------------------------------------------ families

\* One step of the loop "for i in range(num_steps)": eh, el are the even
\* family's higher and lower rows of this step, oh, ol the odd family's, which
\* are built only if odd_row_higher >= self.y_min.
\* acc = [odd, even, exc]; an exception leaves the lists as they were.
BlockRowsStep(acc, addOdd, eh, el, oh, ol) ==
    IF eh.exc # "" THEN [acc EXCEPT !.exc = eh.exc]
    ELSE IF el.exc # "" THEN [acc EXCEPT !.exc = el.exc]
    ELSE IF ~addOdd THEN [acc EXCEPT !.even = acc.even \o <<eh, el>>]
    ELSE IF oh.exc # "" THEN [acc EXCEPT !.even = acc.even \o <<eh, el>>, !.exc = oh.exc]
    ELSE IF ol.exc # "" THEN [acc EXCEPT !.even = acc.even \o <<eh, el>>, !.exc = ol.exc]
    ELSE [acc EXCEPT !.even = acc.even \o <<eh, el>>, !.odd = acc.odd \o <<oh, ol>>]

\* The loop "for i in range(num_steps)" from step i on.
RECURSIVE BlockRowsLoop(_, _, _, _, _, _, _, _)
BlockRowsLoop(prb, ymin, h, m, centre_height, num_steps, i, acc) ==
    IF i >= num_steps \/ acc.exc # "" THEN acc
    ELSE BlockRowsLoop(prb, ymin, h, m, centre_height, num_steps, i + 1,
             BlockRowsStep(acc,
                 centre_height - ((i + 1) * h) - (h \div 2) >= ymin,
                 BlockRow(prb, ymin, h, m, centre_height - ((i + 1) * h)),
                 BlockRow(prb, ymin, h, m, centre_height + (i * h)),
                 BlockRow(prb, ymin, h, m, centre_height - ((i + 1) * h) - (h \div 2)),
                 BlockRow(prb, ymin, h, m, centre_height + (i * h) + ((h + 1) \div 2))))

\* The first statements of _compute_block_rows: the centre row of the odd family.
BlockRowsFrom(prb, ymin, h, m, centre_height, num_steps, centre) ==
    IF centre.exc # "" THEN [odd |-> <<>>, even |-> <<>>, exc |-> centre.exc]
    ELSE BlockRowsLoop(prb, ymin, h, m, centre_height, num_steps, 0,
             [odd |-> <<centre>>, even |-> <<>>, exc |-> ""])

\* ymin, ymax are self.y_min, self.y_max (vertical_offset applied); hgt is
\* self.height (the height of the selection bounds, vertical_offset not applied).
compute_block_rows(prb, ymin, ymax, hgt, h, m) ==
    BlockRowsFrom(prb, ymin, h, m, (ymin + ymax) \div 2, (hgt \div h) \div 2,
        BlockRow(prb, ymin, h, m, ((ymin + ymax) \div 2) - (h \div 2)))

\* ------------------------------------------------------------ the machine

EmptyAssignment == <<>>

Init ==
    /\ pc = "new"
    /\ err = ""
    /\ selection = <<>>
    /\ x_min = 0 /\ y_min = 0 /\ x_max = 0 /\ y_max = 0
    /\ height = 0 /\ row_height = 0 /\ space_width = 0 /\ horizontal_offset = 0
    /\ pixel_row_bounds = <<>>
    /\ odd_block_rows = <<>>
    /\ even_block_rows = <<>>
    /\ max_num_rows = 0
    /\ word_layers = <<>>
    /\ min_num_rows = None
    /\ num_rows = 0
    /\ word_layers_by_row = EmptyAssignment
    /\ block_rows_yielded = [n |-> 0, rows |-> <<>>, exc |-> ""]

\* A pixel row of the selection: no pixel, or a run of on pixels inside
\* [xmin, xmax) that starts in one of the first two columns.
RowShapes(xmin, xmax) ==
    {{}} \cup {a .. b : a \in xmin .. (xmin + 1), b \in xmin .. (xmax - 1)}

\* SpeechBubble.__init__
Construct(sel, xmin, ymin, xmax, ymax, h, space, m, vo) ==
    /\ pc = "new"
    /\ \E prb \in {compute_pixel_row_bounds(sel, xmin, ymin + vo, xmax, ymax - vo)} :
       \E rows \in {compute_block_rows(prb, ymin + vo, ymax - vo, ymax - ymin, h, m)} :
           /\ selection' = sel
           /\ x_min' = xmin
           /\ y_min' = ymin + vo
           /\ x_max' = xmax
           /\ y_max' = ymax - vo
           /\ height' = ymax - ymin
           /\ row_height' = h
           /\ space_width' = space
           /\ horizontal_offset' = m
           /\ pixel_row_bounds' = prb
           /\ odd_block_rows' = rows.odd
           /\ even_block_rows' = rows.even
           /\ max_num_rows' = IF rows.exc = ""
                              THEN Max2(Len(rows.odd), Len(rows.even)) ELSE 0
           /\ pc' = IF rows.exc = "" THEN "constructed" ELSE "error"
           /\ err' = rows.exc
    /\ UNCHANGED <<word_layers, min_num_rows, num_rows, word_layers_by_row,
                   block_rows_yielded>>

\* ------------------------------------------------------------ packing

\* The two loops of _get_min_num_rows: the index of the first row at which the
\* cumulative width of the rows reaches total, or None.
RECURSIVE FirstCoveringIndex(_, _, _, _)
FirstCoveringIndex(rows, total, index, cumulative_row_width) ==
    IF index >= Len(rows) THEN None
    ELSE IF cumulative_row_width + rows[index + 1].width >= total THEN Some(index)
    ELSE FirstCoveringIndex(rows, total, index + 1,
             cumulative_row_width + rows[index + 1].width)

\* min_num_rows_even and min_num_rows_odd from the index each loop stops at.
MinNumRowsEven(i) ==
    IF i.none THEN None ELSE Some(IF i.v % 2 = 0 THEN i.v + 1 ELSE i.v + 2)

MinNumRowsOdd(i) ==
    IF i.none THEN None ELSE Some(IF i.v % 2 = 1 THEN i.v + 1 ELSE i.v + 2)

\* The last three statements of _get_min_num_rows.
MinOfFamilies(min_num_rows_odd, min_num_rows_even) ==
    IF min_num_rows_even.none THEN min_num_rows_odd
    ELSE IF min_num_rows_odd.none THEN min_num_rows_even
    ELSE IF min_num_rows_odd.v <= min_num_rows_even.v THEN min_num_rows_odd
    ELSE min_num_rows_even

get_min_num_rows(odd, even, words) ==
    MinOfFamilies(
        MinNumRowsOdd(FirstCoveringIndex(odd, SumWidths(words), 0, 0)),
        MinNumRowsEven(FirstCoveringIndex(even, SumWidths(words), 0, 0)))

\* _get_block_rows with the upper half yielded innermost row first.
get_block_rows_inner_first(n) ==
    [k \in 1 .. (n \div 2) |-> 2 * (k - 1) + (n % 2)]
       \o (IF n % 2 = 1 THEN <<0>> ELSE <<>>)
       \o [k \in 1 .. (n \div 2) |-> n - 2 * ((n \div 2) - k) - 1]

\* _get_block_rows(n): the indices into the family, in the order of the yields.
get_block_rows(n) ==
    [k \in 1 .. (n \div 2) |-> n - 2 * (k - 1) - 2]
       \o (IF n % 2 = 1 THEN <<0>> ELSE <<>>)
       \o [k \in 1 .. (n \div 2) |-> n - 2 * ((n \div 2) - k) - 1]

\* block_rows = self.even_block_rows if n % 2 == 0 else self.odd_block_rows
FamilyOf(odd, even, n) == IF n % 2 = 0 THEN even ELSE odd

\* The while loop of place_words for one word layer of width w: p is the
\* number of rows the generator has yielded, c is cumulative_word_width.
\* next() on the exhausted generator raises StopIteration; a yield of a row the
\* family does not have raises IndexError.
\* The while loop written as an if: the next row takes the word unchecked.
AdvanceRowsOnce(fam, order, w, p, c) ==
    IF c <= fam[order[p] + 1].width THEN [status |-> "ok", p |-> p, c |-> c]
    ELSE IF p + 1 > Len(order) THEN [status |-> "StopIteration", p |-> p, c |-> c]
    ELSE IF order[p + 1] >= Len(fam) THEN [status |-> "IndexError", p |-> p, c |-> c]
    ELSE [status |-> "ok", p |-> p + 1, c |-> w]

RECURSIVE AdvanceRows(_, _, _, _, _)
AdvanceRows(fam, order, w, p, c) ==
    IF c <= fam[order[p] + 1].width THEN [status |-> "ok", p |-> p, c |-> c]
    ELSE IF p + 1 > Len(order) THEN [status |-> "StopIteration", p |-> p, c |-> c]
    ELSE IF order[p + 1] >= Len(fam) THEN [status |-> "IndexError", p |-> p, c |-> c]
    ELSE AdvanceRows(fam, order, w, p + 1, w)

\* The body of "for word_layer in word_layers" after the while loop ended in a:
\* the word goes to row a.p and the space is added, or the walk ends.
RECURSIVE WalkWords(_, _, _, _, _, _, _, _)
WalkStep(fam, order, words, space, i, a, by_row) ==
    IF a.status # "ok" THEN [status |-> a.status, by_row |-> by_row]
    ELSE WalkWords(fam, order, words, space, i + 1, a.p, a.c + space,
             [by_row EXCEPT ![a.p] = Append(@, i)])

\* The loop "for word_layer in word_layers" from the i-th word layer on.
\* by_row[p] lists the word layers (their indices) of the p-th yielded row.
WalkWords(fam, order, words, space, i, p, c, by_row) ==
    IF i > Len(words) THEN [status |-> "ok", by_row |-> by_row]
    ELSE WalkStep(fam, order, words, space, i,
             AdvanceRows(fam, order, words[i].width, p, c + words[i].width),
             by_row)

\* One iteration of "for num_rows in range(...)" up to the call of _place_words:
\* the generator, its first next(), and the walk over the word layers.
TryRows(odd, even, words, space, n) ==
    IF get_block_rows(n)[1] >= Len(FamilyOf(odd, even, n))
    THEN [status |-> "IndexError", by_row |-> <<>>]
    ELSE WalkWords(FamilyOf(odd, even, n), get_block_rows(n), words, space, 1, 1, 0,
             [p \in 1 .. n |-> <<>>])

\* The word layers of one row after _place_words: text_start is
\* block_row.left + 0.5 * int(floor(block_row.width - total_word_width)), kept
\* doubled; each word layer moves to it and it advances by width + space_width.
RECURSIVE MoveRow(_, _, _, _, _, _)
MoveRow(words, ids, k, text_start2, top, space) ==
    IF k > Len(ids) THEN words
    ELSE MoveRow([words EXCEPT ![ids[k]] =
                     [@ EXCEPT !.x_min2 = text_start2, !.y_min = top, !.moved = TRUE]],
                 ids, k + 1, text_start2 + 2 * (words[ids[k]].width + space),
                 top, space)

RECURSIVE TotalWordWidth(_, _, _)
TotalWordWidth(words, ids, k) ==
    IF k > Len(ids) THEN 0 ELSE words[ids[k]].width + TotalWordWidth(words, ids, k + 1)

\* _place_words over the rows of the dictionary, from the p-th yielded row on.
\* A row whose left is None makes block_row.left + 0.5 * ... raise TypeError
\* (such a row has width 0 and holds no word layer of positive width).
RECURSIVE PlaceRows(_, _, _, _, _, _)
PlaceRows(fam, order, by_row, space, p, words) ==
    IF p > Len(by_row) THEN [exc |-> "", words |-> words]
    ELSE IF by_row[p] = <<>> THEN PlaceRows(fam, order, by_row, space, p + 1, words)
    ELSE IF fam[order[p] + 1].left.none THEN [exc |-> "TypeError", words |-> words]
    ELSE PlaceRows(fam, order, by_row, space, p + 1,
             MoveRow(words, by_row[p], 1,
                 2 * fam[order[p] + 1].left.v
                    + (fam[order[p] + 1].width - TotalWordWidth(words, by_row[p], 1)),
                 fam[order[p] + 1].top, space))

\* word_layers_by_row as the dictionary holds it: the rows that got a word
\* layer, each with its word layers in order.
ByRow(fam, order, by_row) ==
    [p \in {q \in 1 .. Len(by_row) : by_row[q] # <<>>} |->
        [block_row |-> fam[order[p] + 1], word_layers |-> by_row[p]]]

\* WordLayer(layer) for a new text layer of the given width, at the origin.
WordLayer(w) == [width |-> w, x_min2 |-> 0, y_min |-> 0, moved |-> FALSE]

\* place_words up to its loop: _get_min_num_rows and the first raise.
PlaceWords(widths) ==
    /\ pc = "constructed"
    /\ \E words \in {[i \in 1 .. Len(widths) |-> WordLayer(widths[i])]} :
       \E mn \in {get_min_num_rows(odd_block_rows, even_block_rows, words)} :
          /\ word_layers' = words
          /\ min_num_rows' = mn
          /\ num_rows' = mn.v
          /\ pc' = IF mn.none THEN "error" ELSE "search"
          /\ err' = IF mn.none THEN "SelectionSizeError" ELSE ""
    /\ UNCHANGED <<selection, x_min, y_min, x_max, y_max, height, row_height,
                   space_width, horizontal_offset, pixel_row_bounds, odd_block_rows,
                   even_block_rows, max_num_rows, word_layers_by_row,
                   block_rows_yielded>>

\* The loop of place_words has run out of candidates: the final raise.
SearchExhausted ==
    /\ pc = "search"
    /\ num_rows >= max_num_rows
    /\ pc' = "error"
    /\ err' = "SelectionSizeError"
    /\ UNCHANGED <<selection, x_min, y_min, x_max, y_max, height, row_height,
                   space_width, horizontal_offset, pixel_row_bounds, odd_block_rows,
                   even_block_rows, max_num_rows, word_layers, min_num_rows, num_rows,
                   word_layers_by_row, block_rows_yielded>>

\* One iteration of "for num_rows in range(min_num_rows, self.max_num_rows)".
TryNumRows ==
    /\ pc = "search"
    /\ num_rows < max_num_rows
    /\ \E t \in {TryRows(odd_block_rows, even_block_rows, word_layers, space_width,
                         num_rows)} :
          IF t.status = "StopIteration"
          THEN /\ num_rows' = num_rows + 1
               /\ UNCHANGED <<pc, err, word_layers, word_layers_by_row>>
          ELSE IF t.status = "IndexError"
          THEN /\ pc' = "error"
               /\ err' = "IndexError"
               /\ UNCHANGED <<num_rows, word_layers, word_layers_by_row>>
          ELSE \E placed \in {PlaceRows(FamilyOf(odd_block_rows, even_block_rows, num_rows),
                                  get_block_rows(num_rows), t.by_row, space_width, 1,
                                  word_layers)} :
                  /\ word_layers_by_row' =
                        ByRow(FamilyOf(odd_block_rows, even_block_rows, num_rows),
                              get_block_rows(num_rows), t.by_row)
                  /\ word_layers' = placed.words
                  /\ pc' = IF placed.exc = "" THEN "placed" ELSE "error"
                  /\ err' = placed.exc
                  /\ UNCHANGED num_rows
    /\ UNCHANGED <<selection, x_min, y_min, x_max, y_max, height, row_height,
                   space_width, horizontal_offset, pixel_row_bounds, odd_block_rows,
                   even_block_rows, max_num_rows, min_num_rows, block_rows_yielded>>

\* list(self._get_block_rows(n)): the rows the generator yields, up to an
\* IndexError at a row the family does not have.
RECURSIVE YieldRows(_, _, _, _)
YieldRows(fam, order, k, rows) ==
    IF k > Len(order) THEN [rows |-> rows, exc |-> ""]
    ELSE IF order[k] >= Len(fam) THEN [rows |-> rows, exc |-> "IndexError"]
    ELSE YieldRows(fam, order, k + 1, Append(rows, fam[order[k] + 1]))

\* A run of the generator _get_block_rows(n) to its end.
GetBlockRows(n) ==
    /\ pc = "constructed"
    /\ block_rows_yielded.n = 0
    /\ \E y \in {YieldRows(FamilyOf(odd_block_rows, even_block_rows, n),
                          get_block_rows(n), 1, <<>>)} :
          block_rows_yielded' = [n |-> n, rows |-> y.rows, exc |-> y.exc]
    /\ UNCHANGED <<pc, err, selection, x_min, y_min, x_max, y_max, height, row_height,
                   space_width, horizontal_offset, pixel_row_bounds, odd_block_rows,
                   even_block_rows, max_num_rows, word_layers, min_num_rows, num_rows,
                   word_layers_by_row>>

\* pdb.gimp_selection_bounds: the selections whose bounding box is
\* [xmin, xmax) x [0, ymax): the first and the last row hold an on pixel, and so
\* do the first and the last column.
Selections(shapes, xmin, xmax, ymax) ==
    {sel \in [0 .. (ymax - 1) -> shapes] :
        /\ sel[0] # {}
        /\ sel[ymax - 1] # {}
        /\ \E y \in 0 .. (ymax - 1) : xmin \in sel[y]
        /\ \E y \in 0 .. (ymax - 1) : (xmax - 1) \in sel[y]}

\* The plug-in's call SpeechBubble(...), over the bounded inputs.
NewSpeechBubble ==
    /\ pc = "new"
    /\ \E xmin \in SelectionLefts, ymax \in SelectionHeights, h \in 1 .. MaxRowHeight,
          space \in 0 .. MaxSpace, m \in 0 .. MaxOffset, vo \in 0 .. MaxOffset :
          \E sel \in Selections(RowShapes(xmin, MaxX), xmin, MaxX, ymax) :
             Construct(sel, xmin, 0, MaxX, ymax, h, space, m, vo)

\* The plug-in's call speech_bubble.place_words(word_layers): the text has at
\* least one word, and each word is a layer of positive width.
WordWidthLists ==
    UNION {[1 .. k -> WordWidths] : k \in 1 .. MaxWords}

CallPlaceWords ==
    /\ pc = "constructed"
    /\ \E widths \in WordWidthLists : PlaceWords(widths)

Next ==
    \/ NewSpeechBubble
    \/ CallPlaceWords
    \/ TryNumRows
    \/ SearchExhausted

Spec == Init /\ [][Next]_vars

\* Tall selections whose pixel rows are empty or full, for the decomposition
\* into many block rows and the generator over them.
NewTallSpeechBubble ==
    /\ pc = "new"
    /\ \E ymax \in 1 .. MaxTallY, h \in 1 .. MaxRowHeight, vo \in 0 .. MaxOffset :
          \E sel \in Selections({{}, 1 .. (MaxX - 1)}, 1, MaxX, ymax) :
             Construct(sel, 1, 0, MaxX, ymax, h, 0, 0, vo)

CallGetBlockRows ==
    /\ pc = "constructed"
    /\ \E n \in 1 .. max_num_rows : GetBlockRows(n)

NextTall ==
    \/ NewTallSpeechBubble
    \/ CallGetBlockRows

SpecTall == Init /\ [][NextTall]_vars

\* ------------------------------------------------------------ properties

SetMax(S) == CHOOSE x \in S : \A y \in S : y <= x
SetMin(S) == CHOOSE x \in S : \A y \in S : x <= y

\* The block rows of both families.
AllBlockRows ==
    {odd_block_rows[i] : i \in 1 .. Len(odd_block_rows)}
        \cup {even_block_rows[i] : i \in 1 .. Len(even_block_rows)}

\* The sum of the widths of the word layers ids plus the spaces between them.
OccupiedWidth(ids) ==
    TotalWordWidth(word_layers, ids, 1) + space_width * (Len(ids) - 1)

\* C1: in the assignment place_words commits, the words of every block row,
\* with a space_width between neighbours, are no wider than the block row.
NoOverflow ==
    \A p \in DOMAIN word_layers_by_row :
        OccupiedWidth(word_layers_by_row[p].word_layers)
            <= word_layers_by_row[p].block_row.width

\* A committed assignment over two block rows, one of them holding two words
\* with a positive space between them.
NoOverflowWitness ==
    /\ pc = "placed"
    /\ space_width > 0
    /\ Cardinality(DOMAIN word_layers_by_row) >= 2
    /\ \E p \in DOMAIN word_layers_by_row :
          Len(word_layers_by_row[p].word_layers) >= 2

\* C2: after a successful place_words every placed word lies between the left
\* and the right edge of its block row (positions doubled).
WordsInsideRows ==
    pc = "placed" =>
        \A p \in DOMAIN word_layers_by_row :
            \A k \in 1 .. Len(word_layers_by_row[p].word_layers) :
                LET w == word_layers[word_layers_by_row[p].word_layers[k]]
                    b == word_layers_by_row[p].block_row
                IN  /\ 2 * b.left.v <= w.x_min2
                    /\ w.x_min2 + 2 * w.width <= 2 * (b.left.v + b.width)

\* C3: place_words raises SelectionSizeError after _get_min_num_rows gave a
\* number only if the walk over the words fails for every number of rows from
\* min_num_rows up to and including max_num_rows.
SearchReachesMaxNumRows ==
    (pc = "error" /\ err = "SelectionSizeError" /\ ~min_num_rows.none) =>
        \A n \in min_num_rows.v .. max_num_rows :
            TryRows(odd_block_rows, even_block_rows, word_layers, space_width,
                    n).status # "ok"

\* C4: the value of _get_min_num_rows is at most every number of rows n, with
\* n rows in the family of its parity, at which the walk places all the words.
MinNumRowsIsLowerBound ==
    (pc \in {"search", "placed", "error"} /\ word_layers # <<>>) =>
        \A n \in 1 .. max_num_rows :
            (/\ n <= Len(FamilyOf(odd_block_rows, even_block_rows, n))
             /\ TryRows(odd_block_rows, even_block_rows, word_layers, space_width,
                        n).status = "ok")
                => (~min_num_rows.none /\ min_num_rows.v <= n)

\* C5: after a successful place_words, in every block row with words, the gap
\* left of the first word and the gap right of the last word differ by at most
\* one pixel (positions doubled, so by at most 2).
Centred ==
    pc = "placed" =>
        \A p \in DOMAIN word_layers_by_row :
            LET ids == word_layers_by_row[p].word_layers
                b == word_layers_by_row[p].block_row
                first == word_layers[ids[1]]
                last == word_layers[ids[Len(ids)]]
                gap_left2 == first.x_min2 - 2 * b.left.v
                gap_right2 == 2 * (b.left.v + b.width) - (last.x_min2 + 2 * last.width)
            IN  gap_left2 - gap_right2 \in -2 .. 2

\* The scan lines of block row b, all scanned and all with bounds.
HasAllBounds(b) ==
    /\ y_min <= b.top
    /\ b.bottom <= y_max
    /\ \A y \in b.top .. (b.bottom - 1) :
          /\ ~pixel_row_bounds[y - y_min + 1].none
          /\ ~pixel_row_bounds[y - y_min + 1].hi.none

\* C6: a block row whose scan lines all have bounds has left = the largest of
\* their left bounds + horizontal_offset, right = the smallest of their right
\* bounds - horizontal_offset, and width = max(0, right - left).
HorizontalBoundsExact ==
    \A b \in AllBlockRows :
        HasAllBounds(b) =>
            LET l == SetMax({pixel_row_bounds[y - y_min + 1].lo :
                                y \in b.top .. (b.bottom - 1)}) + horizontal_offset
                r == SetMin({pixel_row_bounds[y - y_min + 1].hi.v :
                                y \in b.top .. (b.bottom - 1)}) - horizontal_offset
            IN  /\ b.left = Some(l)
                /\ b.right = Some(r)
                /\ b.width = Max2(0, r - l)

\* The bounds loop of _compute_horizontal_bounds over the hh scan lines from top.
BoundsOver(top, hh) ==
    compute_horizontal_bounds(pixel_row_bounds, y_min, horizontal_offset,
                              top, top + hh)

\* C7: over the scanned rows, the width computed for the scan lines
\* [top, top + hh + 1) is at most the width computed for [top, top + hh).
RowBoundMonotone ==
    pc = "constructed" =>
        \A top \in y_min .. (y_max - 1) :
            \A hh \in 1 .. (y_max - top - 1) :
                (BoundsOver(top, hh).exc = "" /\ BoundsOver(top, hh + 1).exc = "")
                    => BoundsOver(top, hh + 1).width <= BoundsOver(top, hh).width

\* C8: _compute_pixel_row_bounds gives one entry per row of [y_min, y_max):
\* None iff the row has no on pixel in [x_min, x_max), else the leftmost and
\* the rightmost on pixel; and it reads the mask only at columns of
\* [x_min, x_max).
ScanResultExact ==
    pc # "new" =>
        /\ Len(pixel_row_bounds) = Max2(0, y_max - y_min)
        /\ \A i \in 1 .. Len(pixel_row_bounds) :
              LET on == selection[y_min + i - 1] \cap (x_min .. (x_max - 1))
              IN  /\ pixel_row_bounds[i].none <=> on = {}
                  /\ on # {} => /\ pixel_row_bounds[i].lo = SetMin(on)
                                /\ pixel_row_bounds[i].hi = Some(SetMax(on))
                  /\ QueriedColumns(selection, y_min + i - 1, x_min, x_max)
                        \subseteq x_min .. (x_max - 1)

\* C9: constructing a SpeechBubble never raises InvalidRowError, and every
\* block row built lies inside the scanned rows [y_min, y_max).
BlockRowsInsideScannedRows ==
    /\ err # "InvalidRowError"
    /\ \A b \in AllBlockRows : y_min <= b.top /\ b.bottom <= y_max

\* C10: for n up to the length of the family of n's parity, _get_block_rows(n)
\* yields n rows, each of the first n rows of the family once, from the top
\* downwards, each row ending where the next begins.
BlockRowsTopDown ==
    (/\ block_rows_yielded.n >= 1
     /\ block_rows_yielded.n
           <= Len(FamilyOf(odd_block_rows, even_block_rows, block_rows_yielded.n)))
        => LET n == block_rows_yielded.n
               rows == block_rows_yielded.rows
               fam == FamilyOf(odd_block_rows, even_block_rows, n)
           IN  /\ block_rows_yielded.exc = ""
               /\ Len(rows) = n
               /\ \A i \in 1 .. n : Cardinality({k \in 1 .. Len(rows) : rows[k] = fam[i]}) = 1
               /\ \A k \in 1 .. (Len(rows) - 1) :
                     /\ rows[k].top < rows[k + 1].top
                     /\ rows[k].bottom = rows[k + 1].top

\* The generator has yielded four or more rows of a family that has them.
BlockRowsTopDownWitness ==
    /\ block_rows_yielded.n >= 4
    /\ block_rows_yielded.exc = ""
    /\ Len(block_rows_yielded.rows) = block_rows_yielded.n

====
